---------------------------- MODULE Spec2Model ----------------------------
(***************************************************************************)
(* A model of the udm-rasteriser pipeline: argument validation             *)
(* (Rasteriser.__init__, FishNet.__init__), fishnet generation             *)
(* (FishNet.create) and the overlay / aggregation / classification /       *)
(* rasterisation steps of Rasteriser.create.                               *)
(*                                                                         *)
(* Lengths are metres, areas square metres, as in EPSG:27700.  All         *)
(* coordinates of the model are integers, for which the float arithmetic   *)
(* of the code (sums, differences, products, the quotients compared        *)
(* below) is exact.  Python's None is modelled by the empty tuple.         *)
(***************************************************************************)
EXTENDS Integers, Sequences, FiniteSets, TLC

VARIABLES
    pc,            \* position of the run: constructor, then the steps of create()
    args,          \* the keyword arguments the Rasteriser constructor was called with
    attrs_set,     \* whether __init__ assigned the instance attributes
    errors,        \* keys of the validator's error dictionary (v.errors)
    named,         \* the fields the constructor's error report names
    lookups,       \* number of boundary lookups (requests.get) issued
    fishnet,       \* the fishnet GeoDataFrame: a sequence of cells
    bounds,        \* fishnet.total_bounds: <<x_min, y_min, x_max, y_max>>
    aoi,           \* the extent FishNet.create built the grid from (None if it built none)
    intersection,  \* the overlay's fragments, each with its area
    int_merge,     \* the merged table the raster is burned from
    dims,          \* <<xdim, ydim>>
    temp_files,    \* members of the temporary shapefile set present in the data directory
    raster,        \* the output raster dataset
    outcome,       \* how create() ended: running, ok, or failed
    data_dir,      \* names of the files that were in the data directory before the
                   \* program started and that nothing has removed since
    temp_stem,     \* uuid4().hex of this run's temporary shapefile ("" before create())
    fault,         \* what went wrong while the fishnet was obtained: none, boundary, other, validation
    fishnet_geojson, \* what FishNet.create handed to Rasteriser.create: unset, None, FeatureCollection
    nets,          \* the FishNet objects of a program that drives FishNet itself
    job,           \* the state of run.py's run()
    config         \* the Config class: its __conf, and the last call of a program
                   \* that calls Config.get and Config.set

vars == <<pc, args, attrs_set, errors, named, lookups, fishnet, bounds, aoi,
          intersection, int_merge, dims, temp_files, raster, outcome,
          data_dir, temp_stem, fault, fishnet_geojson, nets, job, config>>

None == <<>>

(***************************************************************************)
(* Bounds of the model.  A bounding box spans MaxXSteps steps of 50 m      *)
(* in x and MaxYSteps steps of 50 m in y at most.                          *)
(***************************************************************************)
MaxXSteps == 5
MaxYSteps == 4

(***************************************************************************)
(* The argument schema's limits.                                           *)
(***************************************************************************)
MinCoord == -100000
MaxCoord == 1250000
MinResolution == 10
MaxResolution == 10000
MinThreshold == 0
MaxThreshold == 100
LadDigits == 8
AreaDivisor == 100

UpperCase == {"A", "B", "C", "D", "E", "F", "G", "H", "I", "J", "K", "L", "M",
              "N", "O", "P", "Q", "R", "S", "T", "U", "V", "W", "X", "Y", "Z"}
Digits == {"0", "1", "2", "3", "4", "5", "6", "7", "8", "9"}

AllowedFormats == {"GeoTIFF", "ASCII"}
AllowedScales == {"oa", "lad", "gor"}
AllowedNodata == {0, 1}

\* The regular expression ^[A-Z][0-9]{8}$ applied by re.match to a string given
\* as its sequence of characters ($ also matches before one trailing newline).
MatchesLadRegex(code) ==
    LET n == Len(code)
        body == IF n = LadDigits + 2 /\ code[n] = "\n" THEN SubSeq(code, 1, n - 1)
                ELSE code
    IN  /\ Len(body) = LadDigits + 1
        /\ body[1] \in UpperCase
        /\ \A i \in 2..(LadDigits + 1) : body[i] \in Digits

\* The rules 'min' and 'max' of one number.
InRange(v, lo, hi) == v >= lo /\ v <= hi

\* ErrorKey of a validator that lets everything pass.
ErrorKeyNever(field, broken) == {}

\* A field's entry in the error dictionary: present iff the field breaks its rule.
ErrorKey(field, broken) == IF broken THEN {field} ELSE {}

\* Validator().validate(args, Rasteriser.__ARG_SCHEMA): the keys of v.errors.
RasteriserErrors(a) ==
         ErrorKey("area_codes",
                  \E i \in 1..Len(a.area_codes) : ~MatchesLadRegex(a.area_codes[i]))
    \cup ErrorKey("bounding_box",
                  \E i \in 1..Len(a.bounding_box) :
                      ~InRange(a.bounding_box[i], MinCoord, MaxCoord))
    \cup ErrorKey("scale", a.scale \notin AllowedScales)
    \cup ErrorKey("output_format", a.output_format \notin AllowedFormats)
    \cup ErrorKey("resolution", ~InRange(a.resolution, MinResolution, MaxResolution))
    \cup ErrorKey("area_threshold",
                  ~InRange(a.area_threshold, MinThreshold, MaxThreshold))
    \cup ErrorKey("nodata", a.nodata \notin AllowedNodata)

\* Validator().validate(args, FishNet.__ARG_SCHEMA): the keys of v.errors
\* (outfile None and outformat 'GeoJSON', as Rasteriser.create calls it).
FishNetErrors(lad, bbox, netsize) ==
         ErrorKey("lad", \E i \in 1..Len(lad) : ~MatchesLadRegex(lad[i]))
    \cup ErrorKey("bbox", \E i \in 1..Len(bbox) : ~InRange(bbox[i], MinCoord, MaxCoord))
    \cup ErrorKey("netsize", ~InRange(netsize, MinResolution, MaxResolution))

\* `for name, errmsg in v.errors` iterates the dictionary's keys and unpacks each
\* key, a string, into two names: ValueError unless the key has two characters.
UnpackError(key) == Len(key) # 2

\* The fields the loop's log lines name.  A key that unpacks binds `name` to its
\* first character, which is the field's name only for a one-character key.
ReportedFields(errs) == {k \in errs : ~UnpackError(k) /\ Len(k) = 1}

\* Whether the reporting loop raises.
ReportRaises(errs) == \E k \in errs : UnpackError(k)

(***************************************************************************)
(* FishNet.create                                                          *)
(***************************************************************************)

\* math.ceil(a / b) for b > 0.
Ceil(a, b) == -((-a) \div b)

\* int(a / b) for b > 0: truncation towards zero.
Trunc(a, b) == IF a >= 0 THEN a \div b ELSE -((-a) \div b)

\* Ring with the right edge drawn one unit short of the next column.
RingInset(x_left, x_right, y_top, y_bottom) ==
    << <<x_left, y_top>>, <<x_right - 1, y_top>>, <<x_right - 1, y_bottom>>,
       <<x_left, y_bottom>>, <<x_left, y_top>> >>

\* The linear ring of one cell: five points, as the AddPoint calls add them.
Ring(x_left, x_right, y_top, y_bottom) ==
    << <<x_left, y_top>>, <<x_right, y_top>>, <<x_right, y_bottom>>,
       <<x_left, y_bottom>>, <<x_left, y_top>> >>

\* Feature with the FID counted from 0.
FeatureZeroBased(fid, ring) == [FID |-> fid - 1, ring |-> ring]

\* One feature of the fishnet layer: the polygon and its FID field.
Feature(fid, ring) == [FID |-> fid, ring |-> ring]

\* The inner loop over the rows of one column: returns the layer and the next fid.
RECURSIVE RowLoop(_, _, _, _, _, _, _, _, _)
RowLoop(countrows, rows, fid, ring_y_top, ring_y_bottom, x_left, x_right, grid_height, layer) ==
    IF countrows < rows
    THEN RowLoop(countrows + 1, rows, fid + 1,
                 ring_y_top - grid_height, ring_y_bottom - grid_height,
                 x_left, x_right, grid_height,
                 Append(layer, Feature(fid, Ring(x_left, x_right,
                                                 ring_y_top, ring_y_bottom))))
    ELSE [layer |-> layer, fid |-> fid]

\* The outer loop over the columns.
RECURSIVE ColLoop(_, _, _, _, _, _, _, _, _, _, _)
ColLoop(countcols, cols, rows, fid, ring_x_left_origin, ring_x_right_origin, ring_y_top_origin, ring_y_bottom_origin, grid_width, grid_height, layer) ==
    IF countcols < cols
    THEN LET col == RowLoop(0, rows, fid, ring_y_top_origin, ring_y_bottom_origin,
                            ring_x_left_origin, ring_x_right_origin,
                            grid_height, layer)
         IN  ColLoop(countcols + 1, cols, rows, col.fid,
                     ring_x_left_origin + grid_width,
                     ring_x_right_origin + grid_width,
                     ring_y_top_origin, ring_y_bottom_origin,
                     grid_width, grid_height, col.layer)
    ELSE layer

\* GridCols with the quotient truncated instead of rounded up.
GridColsFloor(extent, netsize) == Trunc(extent[3] - extent[1], netsize)

\* Number of rows and of columns of the grid over an extent.
GridRows(extent, netsize) == Ceil(extent[4] - extent[2], netsize)
GridCols(extent, netsize) == Ceil(extent[3] - extent[1], netsize)

\* FishNetCells with the loops exchanged: row by row, left to right.
FishNetCellsRowMajor(extent, netsize) ==
    LET rows == GridRows(extent, netsize)
        cols == GridCols(extent, netsize)
    IN  [k \in 1..(rows * cols) |->
            LET r == (k - 1) \div cols
                c == (k - 1) % cols
            IN  Feature(k, Ring(extent[1] + c * netsize,
                                extent[1] + (c + 1) * netsize,
                                extent[4] - r * netsize,
                                extent[4] - (r + 1) * netsize))]

\* The cells FishNet.create writes for the extent <<xmin, ymin, xmax, ymax>>.
FishNetCells(extent, netsize) ==
    LET xmin == extent[1]
        ymax == extent[4]
        grid_width == netsize
        grid_height == netsize
    IN  ColLoop(0, GridCols(extent, netsize), GridRows(extent, netsize), 1,
                xmin, xmin + grid_width, ymax, ymax - grid_height,
                grid_width, grid_height, <<>>)

(***************************************************************************)
(* Geometry of rectangles, as the overlay and the raster engine see them.  *)
(***************************************************************************)
Min(S) == CHOOSE m \in S : \A n \in S : m <= n
Max(S) == CHOOSE m \in S : \A n \in S : m >= n

\* The envelope <<x_min, y_min, x_max, y_max>> of a ring.
Envelope(ring) ==
    LET xs == {ring[i][1] : i \in 1..Len(ring)}
        ys == {ring[i][2] : i \in 1..Len(ring)}
    IN  <<Min(xs), Min(ys), Max(xs), Max(ys)>>

\* GeoDataFrame.total_bounds of a non-empty layer.
TotalBounds(layer) ==
    LET env == [i \in 1..Len(layer) |-> Envelope(layer[i].ring)]
        idx == 1..Len(layer)
    IN  <<Min({env[i][1] : i \in idx}), Min({env[i][2] : i \in idx}),
          Max({env[i][3] : i \in idx}), Max({env[i][4] : i \in idx})>>

\* Area of the intersection of two envelopes (0 when they only touch or are apart).
OverlapArea(e, f) ==
    LET w == Min({e[3], f[3]}) - Max({e[1], f[1]})
        h == Min({e[4], f[4]}) - Max({e[2], f[2]})
    IN  IF w > 0 /\ h > 0 THEN w * h ELSE 0

(***************************************************************************)
(* Rasteriser.create: overlay, aggregation, classification                 *)
(***************************************************************************)

\* overlay(fishnet, input_data, how='intersection') with the 'area' column:
\* one fragment per (cell, input feature) pair that shares area, carrying the
\* cell's FID.  Input features are axis-aligned rectangles <<x_min, y_min, x_max, y_max>>.
Overlay(layer, input_data) ==
    LET n == Len(layer)
        m == Len(input_data)
        pairs == [k \in 1..(n * m) |->
                    LET cell == layer[((k - 1) \div m) + 1]
                        feat == input_data[((k - 1) % m) + 1]
                    IN  [FID |-> cell.FID,
                         area |-> OverlapArea(Envelope(cell.ring), feat)]]
        NotEmpty(frag) == frag.area > 0
    IN  SelectSeq(pairs, NotEmpty)

\* intersection.groupby(['FID']).area.sum(): a series indexed by the FIDs that
\* own at least one fragment.
RECURSIVE GroupSum(_, _, _)
GroupSum(frags, i, series) ==
    IF i > Len(frags) THEN series
    ELSE LET f == frags[i]
         IN  GroupSum(frags, i + 1,
                      IF f.FID \in DOMAIN series
                      THEN [series EXCEPT ![f.FID] = @ + f.area]
                      ELSE series @@ (f.FID :> f.area))

\* Normalise without the division.
NormaliseNone(sum) == [num |-> sum, den |-> 1]

\* series / 100.0: each value as the quotient num / den.
Normalise(sum) == [num |-> sum, den |-> AreaDivisor]

\* fishnet.merge(series, on='FID'): pandas' default join, how='inner', keeps the
\* rows of the fishnet whose FID is in the series' index, in the fishnet's order.
Merge(layer, series) ==
    LET Matched(cell) == cell.FID \in DOMAIN series
        kept == SelectSeq(layer, Matched)
    IN  [i \in 1..Len(kept) |->
            [FID |-> kept[i].FID, ring |-> kept[i].ring,
             area |-> Normalise(series[kept[i].FID])]]

\* Exceeds with >= for >.
ExceedsOrEqual(area, threshold) == area.num >= threshold * area.den

\* row['area'] > self.area_threshold
Exceeds(area, threshold) == area.num > threshold * area.den

\* The value written to include_me for one row.
IncludeMe(area, threshold, invert) ==
    IF Exceeds(area, threshold)
    THEN (IF invert THEN 0 ELSE 1)
    ELSE (IF invert THEN 1 ELSE 0)

\* The iterrows loop: every row of int_merge gets its include_me.
Classified(rows, threshold, invert) ==
    [i \in 1..Len(rows) |->
        [FID |-> rows[i].FID, ring |-> rows[i].ring, area |-> rows[i].area,
         include_me |-> IncludeMe(rows[i].area, threshold, invert)]]

(***************************************************************************)
(* Rasteriser.create: the raster                                           *)
(***************************************************************************)
\* RasterWidth counting both ends.
RasterWidthInclusive(b, resolution) == Trunc(b[3] - b[1], resolution) + 1

RasterWidth(b, resolution) == Trunc(b[3] - b[1], resolution)
RasterHeight(b, resolution) == Trunc(b[4] - b[2], resolution)

\* GeoTransform anchored at the bottom-left corner, rows running upwards.
GeoTransformBottomLeft(b, resolution) == <<b[1], resolution, 0, b[2], 0, resolution>>

GeoTransform(b, resolution) == <<b[1], resolution, 0, b[4], 0, -resolution>>

Pixels(width, height) == (0..(width - 1)) \X (0..(height - 1))

\* Whether the centre of pixel p = <<column, row>> lies inside an envelope
\* (coordinates doubled, to stay in the integers).
CentreInside(gt, p, env) ==
    LET cx2 == 2 * gt[1] + (2 * p[1] + 1) * gt[2]
        cy2 == 2 * gt[4] + (2 * p[2] + 1) * gt[6]
    IN  /\ 2 * env[1] < cx2 /\ cx2 < 2 * env[3]
        /\ 2 * env[2] < cy2 /\ cy2 < 2 * env[4]

\* BurnLayer without the ATTRIBUTE option: GDAL's default burn value.
BurnLayerFixed(band, gt, rows, i) ==
    [p \in DOMAIN band |->
        IF \E k \in i..Len(rows) : CentreInside(gt, p, Envelope(rows[k].ring))
        THEN 255 ELSE band[p]]

\* gdal.RasterizeLayer with ATTRIBUTE=include_me: the features are burned in
\* layer order, each over the pixels whose centre it contains.
RECURSIVE BurnLayer(_, _, _, _)
BurnLayer(band, gt, rows, i) ==
    IF i > Len(rows) THEN band
    ELSE BurnLayer([p \in DOMAIN band |->
                      IF CentreInside(gt, p, Envelope(rows[i].ring))
                      THEN rows[i].include_me ELSE band[p]],
                   gt, rows, i + 1)

\* The files of a shapefile set to_file writes beside <stem>.shp.
ShapefileSet == {"shp", "shx", "dbf", "cpg"}

NoRaster == [exists |-> FALSE, width |-> 0, height |-> 0, transform |-> None,
             band |-> None, filled |-> FALSE, burned |-> FALSE]

\* ExtentMode with the area codes consulted first.
ExtentModeCodesFirst(a) ==
    IF Len(a.area_codes) > 0 THEN "area_codes"
    ELSE IF a.bounding_box # None THEN "bounding_box"
    ELSE IF a.fishnet # None THEN "fishnet"
    ELSE "none"

\* The if / elif / elif / else that picks where the extent comes from.
ExtentMode(a) ==
    IF a.bounding_box # None THEN "bounding_box"
    ELSE IF a.fishnet # None THEN "fishnet"
    ELSE IF Len(a.area_codes) > 0 THEN "area_codes"
    ELSE "none"

\* What FishNet.create returns with outfile None: the GeoJSON of the layer, or,
\* from the bare except that ends it, None, whatever was raised.
CreateReturns(what) == IF what = "none" THEN "FeatureCollection" ELSE "None"

\* The output raster's path, '{DATA_DIRECTORY}/{output_filename}'.  A file of the
\* data directory is named by <<stem, extension>>.
OutputFile(a) == <<"output_raster", "tif">>

\* GlobMatches by the extension alone: '*.shp'.
GlobMatchesExtension(stem, file) == file[2] = "shp"

\* Path.glob('{stem}.*'): the files of the directory named <stem>.<anything>.
GlobMatches(stem, file) == file[1] = stem

(***************************************************************************)
(* The calls the model explores                                            *)
(***************************************************************************)
Origins == {<<0, 0>>, <<50, 100>>}

\* Bounding boxes <<xmin, ymin, xmax, ymax>>, the empty ones (xmax = xmin or
\* ymax = ymin) included: the schema accepts them.
Boxes == {<<o[1], o[2], o[1] + 50 * i, o[2] + 50 * j>> :
            o \in Origins, i \in 0..MaxXSteps, j \in 0..MaxYSteps}

Resolutions == {50, 100}
Thresholds == {25, 50}

\* bbox default of FishNet.__init__
DefaultBBox == <<90000, 10000, 400000, 660000>>

\* Input feature collections: one polygon away from every grid; one polygon
\* that is exactly the square [0,100]x[100,200]; two polygons that are the two
\* halves of the square [0,50]x[150,200]; one polygon over the whole area.
FeatureSets == { << <<1000, 1000, 1100, 1100>> >>,
                 << <<0, 100, 100, 200>> >>,
                 << <<0, 150, 25, 200>>, <<25, 150, 50, 200>> >>,
                 << <<0, 0, 400, 400>> >> }

\* Fishnets supplied ready-made: earlier outputs of FishNet.create.
SuppliedFishnets == { FishNetCells(<<0, 0, 200, 200>>, 100),
                      FishNetCells(<<100, 100, 300, 200>>, 100) }

GoodCode1 == <<"E", "0", "8", "0", "0", "0", "0", "2", "1">>
GoodCode2 == <<"E", "0", "7", "0", "0", "0", "0", "0", "4">>
LowerCode == <<"e", "0", "8", "0", "0", "0", "0", "2", "1">>
ShortCode == <<"E", "0", "8", "0", "0", "0", "0", "2">>

\* The extents the boundary service answers with.
LadBounds == {<<0, 0, 200, 200>>, <<50, 100, 300, 250>>}

\* Where the extent comes from: one source, none, or several at once.
ExtentSources ==
         {[bounding_box |-> b, fishnet |-> None, area_codes |-> <<>>] : b \in Boxes}
    \cup {[bounding_box |-> None, fishnet |-> f, area_codes |-> <<>>] :
            f \in SuppliedFishnets}
    \cup {[bounding_box |-> None, fishnet |-> None, area_codes |-> c] :
            c \in {<<GoodCode1>>, <<GoodCode1, GoodCode2>>}}
    \cup {[bounding_box |-> None, fishnet |-> None, area_codes |-> <<>>]}
    \cup {[bounding_box |-> b, fishnet |-> f, area_codes |-> <<GoodCode1>>] :
            b \in {None, <<0, 0, 200, 200>>},
            f \in {FishNetCells(<<100, 100, 300, 200>>, 100)}}

Call(src, geojson, fmt, scale, res, thr, inv, nd) ==
    [geojson_data |-> geojson, area_codes |-> src.area_codes,
     bounding_box |-> src.bounding_box, fishnet |-> src.fishnet, scale |-> scale,
     output_filename |-> "output_raster.tif", output_format |-> fmt,
     resolution |-> res, area_threshold |-> thr, invert |-> inv, nodata |-> nd]

\* Calls whose arguments all pass the schema.
ValidCalls ==
    {Call(src, g, "GeoTIFF", "lad", res, thr, inv, nd) :
        src \in ExtentSources, g \in FeatureSets, res \in Resolutions,
        thr \in Thresholds, inv \in BOOLEAN, nd \in AllowedNodata}

\* Calls around the schema's limits, most of them breaking one rule or several.
LimitCalls ==
    {Call([bounding_box |-> b, fishnet |-> None, area_codes |-> c],
          << <<0, 0, 400, 400>> >>, fmt, sc, res, thr, TRUE, nd) :
        b \in {<<0, 0, 30, 20>>, <<1249990, 0, 1250001, 20>>,
               <<-100001, 0, -99990, 20>>},
        c \in {<<>>, <<LowerCode>>, <<GoodCode1, ShortCode>>},
        fmt \in {"GeoTIFF", "ASCII", "PNG"},
        sc \in {"lad", "ward"},
        res \in {9, 10, 10000, 10001},
        thr \in {-1, 0, 100, 101},
        nd \in {1, 2}}

Calls == ValidCalls \cup LimitCalls

\* Values uuid.uuid4().hex takes (32 hexadecimal digits in the code).
Uuids == {"3f2a", "9c4e"}

\* What the data directory holds when a program starts: the temporary shapefile
\* of another run, and a fishnet file and an output raster of an earlier run.
DataDirs == { {<<"9c4e", "shp">>, <<"9c4e", "dbf">>, <<"fishnet", "geojson">>,
               <<"output_raster", "tif">>} }

\* uuid4 draws 122 random bits: the values the model lets it take are those no
\* file of the directory is named after.
FreshUuids(dir) == {u \in Uuids : \A file \in dir : file[1] # u}

(***************************************************************************)
(* Config: the configuration class.  Values are written as the expressions *)
(* of the class body that produce them.                                    *)
(***************************************************************************)

\* Config.__conf after the class body has run.
Conf ==
    [NISMOD_DB_USERNAME |-> "os.getenv('USERNAME')",
     NISMOD_DB_PASSWORD |-> "os.getenv('PASSWORD')",
     NISMOD_DB_API_URL  |-> "https://www.nismod.ac.uk/api/data",
     LOG_LEVEL          |-> "logging.INFO",
     LOG_FILE           |-> "logs/rasteriser.log",
     LOG_FORMAT         |-> "%(asctime)s %(name)-12s %(levelname)-8s %(message)s",
     LOG_DATE_FORMAT    |-> "%d-%m %H:%M",
     DATA_DIRECTORY     |-> "data"]

\* Config.__setters
Setters == {"LOG_LEVEL"}

\* Set that takes any name __conf has.
SetAnyName(conf, name, value) ==
    IF name \in DOMAIN conf
    THEN [conf |-> [conf EXCEPT ![name] = value], raised |-> "none"]
    ELSE [conf |-> conf, raised |-> "NameError"]

\* Config.set(name, value): __conf afterwards, and what was raised.
Set(conf, name, value) ==
    IF name \in Setters
    THEN [conf |-> [k \in DOMAIN conf \cup {name} |->
                        IF k = name THEN value ELSE conf[k]],
          raised |-> "none"]
    ELSE [conf |-> conf, raised |-> "NameError"]

\* Config.get(name): what is returned, and what was raised.
Get(conf, name) ==
    IF name \in DOMAIN conf
    THEN [returned |-> conf[name], raised |-> "none"]
    ELSE [returned |-> "", raised |-> "KeyError"]

\* The names and values the calls are made with.
ConfigNames == DOMAIN Conf \cup {"LOG_FILENAME"}
ConfigValues == {"logging.DEBUG", "logging.INFO", "logging.ERROR", "verbose"}

\* The class once the module is loaded; calls tells whether the program is
\* the one that calls get and set.
ConfigLoaded(calls) ==
    [conf |-> Conf, calls |-> calls,
     call |-> [op |-> "", name |-> "", value |-> ""],
     raised |-> "none", returned |-> ""]

(***************************************************************************)
(* The state machine: one Rasteriser(...) call followed by create().       *)
(***************************************************************************)
\* The state every program starts from, whichever class or script it drives.
Blank ==
    /\ attrs_set = FALSE
    /\ errors = {}
    /\ named = {}
    /\ lookups = 0
    /\ fishnet = <<>>
    /\ bounds = None
    /\ aoi = None
    /\ intersection = <<>>
    /\ int_merge = <<>>
    /\ dims = None
    /\ temp_files = {}
    /\ raster = NoRaster
    /\ outcome = "running"
    /\ temp_stem = ""
    /\ fault = "none"
    /\ fishnet_geojson = "unset"

\* A program that calls Rasteriser(...) and then create() on the object.
InitRasteriser ==
    /\ pc = "new"
    /\ args \in Calls
    /\ data_dir \in DataDirs
    /\ nets = None
    /\ job = None
    /\ Blank
    /\ config = ConfigLoaded(FALSE)

\* Rasteriser.__init__: validate, then assign the attributes or report the errors.
Construct ==
    /\ pc = "new"
    /\ errors' = RasteriserErrors(args)
    /\ attrs_set' = (errors' = {})
    /\ named' = ReportedFields(errors')
    /\ pc' = IF ReportRaises(errors') THEN "ctor_raised" ELSE "create"
    /\ UNCHANGED <<args, lookups, fishnet, bounds, aoi, intersection, int_merge,
                   dims, temp_files, raster, outcome>>
    /\ UNCHANGED <<data_dir, temp_stem, fault, fishnet_geojson, nets, job, config>>

\* The except and finally clauses are entered with the exception pending.
Failed ==
    /\ pc' = "finally"
    /\ outcome' = "failed"

\* create() is entered: the temporary shapefile gets its name.
EnterCreate ==
    /\ pc = "create"
    /\ \E u \in FreshUuids(data_dir) : temp_stem' = u
    /\ pc' = "read_input"
    /\ UNCHANGED <<args, attrs_set, errors, named, lookups, fishnet, bounds, aoi,
                   intersection, int_merge, dims, temp_files, raster, outcome,
                   data_dir, fault, fishnet_geojson, nets, job, config>>

\* create(): the input GeoJSON is read into a GeoDataFrame.  Reading an
\* attribute __init__ never assigned raises AttributeError.
ReadInput ==
    /\ pc = "read_input"
    /\ IF attrs_set
       THEN pc' = "fishnet" /\ UNCHANGED outcome
       ELSE Failed
    /\ UNCHANGED <<args, attrs_set, errors, named, lookups, fishnet, bounds, aoi,
                   intersection, int_merge, dims, temp_files, raster>>
    /\ UNCHANGED <<data_dir, temp_stem, fault, fishnet_geojson, nets, job, config>>

\* GeoDataFrame.from_features(fishnet_geojson) and total_bounds: a layer
\* without features has no geometry to take bounds or overlay from.
UseFishnet(layer) ==
    IF Len(layer) > 0
    THEN /\ fishnet' = layer
         /\ bounds' = TotalBounds(layer)
         /\ pc' = "overlay"
         /\ UNCHANGED outcome
    ELSE /\ Failed
         /\ UNCHANGED <<fishnet, bounds>>

\* The fishnet is generated from the supplied bounding box.
FishnetFromBBox ==
    /\ pc = "fishnet"
    /\ ExtentMode(args) = "bounding_box"
    /\ IF ReportRaises(FishNetErrors(<<>>, args.bounding_box, args.resolution))
       THEN /\ Failed
            /\ fault' = "validation"
            /\ UNCHANGED <<fishnet, bounds, aoi, fishnet_geojson>>
       ELSE /\ aoi' = args.bounding_box
            /\ fishnet_geojson' = CreateReturns("none")
            /\ UseFishnet(FishNetCells(args.bounding_box, args.resolution))
            /\ UNCHANGED fault
    /\ UNCHANGED <<args, attrs_set, errors, named, lookups, intersection,
                   int_merge, dims, temp_files, raster>>
    /\ UNCHANGED <<data_dir, temp_stem, nets, job, config>>

\* The supplied fishnet is used as it is.
FishnetSupplied ==
    /\ pc = "fishnet"
    /\ ExtentMode(args) = "fishnet"
    /\ fishnet_geojson' = "FeatureCollection"
    /\ UseFishnet(args.fishnet)
    /\ UNCHANGED fault
    /\ UNCHANGED <<args, attrs_set, errors, named, lookups, aoi, intersection,
                   int_merge, dims, temp_files, raster>>
    /\ UNCHANGED <<data_dir, temp_stem, nets, job, config>>

\* The fishnet is generated over the bounds the boundary service returns for
\* the area codes.
FishnetFromLad ==
    /\ pc = "fishnet"
    /\ ExtentMode(args) = "area_codes"
    /\ ~ReportRaises(FishNetErrors(args.area_codes, DefaultBBox, args.resolution))
    /\ lookups' = lookups + 1
    /\ \E total_bounds \in LadBounds :
          /\ aoi' = total_bounds
          /\ UseFishnet(FishNetCells(total_bounds, args.resolution))
    /\ fishnet_geojson' = CreateReturns("none")
    /\ UNCHANGED fault
    /\ UNCHANGED <<args, attrs_set, errors, named, intersection, int_merge,
                   dims, temp_files, raster>>
    /\ UNCHANGED <<data_dir, temp_stem, nets, job, config>>

\* The boundary lookup fails (requests.get raises, or the response is not a
\* boundary read_file and ceil can work with): FishNet.create logs the
\* exception and returns None, which from_features cannot read.
FishnetLadFails ==
    /\ pc = "fishnet"
    /\ ExtentMode(args) = "area_codes"
    /\ lookups' = lookups + 1
    /\ fault' = "boundary"
    /\ fishnet_geojson' = CreateReturns(fault')
    /\ Failed
    /\ UNCHANGED <<args, attrs_set, errors, named, fishnet, bounds, aoi,
                   intersection, int_merge, dims, temp_files, raster>>
    /\ UNCHANGED <<data_dir, temp_stem, nets, job, config>>

\* FishNet.create fails past the bounds, in a call to OGR or to the in-memory
\* file: it logs the exception and returns None as well.
FishnetCreateRaises ==
    /\ pc = "fishnet"
    /\ ExtentMode(args) \in {"bounding_box", "area_codes"}
    /\ lookups' = IF ExtentMode(args) = "area_codes" THEN lookups + 1 ELSE lookups
    /\ fault' = "other"
    /\ fishnet_geojson' = CreateReturns(fault')
    /\ Failed
    /\ UNCHANGED <<args, attrs_set, errors, named, fishnet, bounds, aoi,
                   intersection, int_merge, dims, temp_files, raster>>
    /\ UNCHANGED <<data_dir, temp_stem, nets, job, config>>

\* No bounding box, no fishnet, no area codes: ValueError.
NoBoundary ==
    /\ pc = "fishnet"
    /\ ExtentMode(args) = "none"
    /\ Failed
    /\ UNCHANGED <<args, attrs_set, errors, named, lookups, fishnet, bounds, aoi,
                   intersection, int_merge, dims, temp_files, raster>>
    /\ UNCHANGED <<data_dir, temp_stem, fault, fishnet_geojson, nets, job, config>>

\* Overlay intersection, with the area of each fragment.
OverlayStep ==
    /\ pc = "overlay"
    /\ intersection' = Overlay(fishnet, args.geojson_data)
    /\ pc' = "merge"
    /\ UNCHANGED <<args, attrs_set, errors, named, lookups, fishnet, bounds, aoi,
                   int_merge, dims, temp_files, raster, outcome>>
    /\ UNCHANGED <<data_dir, temp_stem, fault, fishnet_geojson, nets, job, config>>

\* The summed, normalised areas are merged onto the fishnet.
MergeStep ==
    /\ pc = "merge"
    /\ int_merge' = Merge(fishnet, GroupSum(intersection, 1, [f \in {} |-> 0]))
    /\ pc' = "classify"
    /\ UNCHANGED <<args, attrs_set, errors, named, lookups, fishnet, bounds, aoi,
                   intersection, dims, temp_files, raster, outcome>>
    /\ UNCHANGED <<data_dir, temp_stem, fault, fishnet_geojson, nets, job, config>>

\* Every row of the merged table gets its include_me.
ClassifyStep ==
    /\ pc = "classify"
    /\ int_merge' = Classified(int_merge, args.area_threshold, args.invert)
    /\ pc' = "write_temp"
    /\ UNCHANGED <<args, attrs_set, errors, named, lookups, fishnet, bounds, aoi,
                   intersection, dims, temp_files, raster, outcome>>
    /\ UNCHANGED <<data_dir, temp_stem, fault, fishnet_geojson, nets, job, config>>

\* The raster's dimensions are computed and the merged table is written to the
\* temporary shapefile.
WriteTemp ==
    /\ pc = "write_temp"
    /\ dims' = <<RasterWidth(bounds, args.resolution),
                 RasterHeight(bounds, args.resolution)>>
    /\ temp_files' = ShapefileSet
    /\ pc' = "create_raster"
    /\ UNCHANGED <<args, attrs_set, errors, named, lookups, fishnet, bounds, aoi,
                   intersection, int_merge, raster, outcome>>
    /\ UNCHANGED <<data_dir, temp_stem, fault, fishnet_geojson, nets, job, config>>

\* to_file refuses an empty table (geopandas raises ValueError for one; later
\* releases write it).
WriteTempRefused ==
    /\ pc = "write_temp"
    /\ Len(int_merge) = 0
    /\ dims' = <<RasterWidth(bounds, args.resolution),
                 RasterHeight(bounds, args.resolution)>>
    /\ Failed
    /\ UNCHANGED <<args, attrs_set, errors, named, lookups, fishnet, bounds, aoi,
                   intersection, int_merge, temp_files, raster>>
    /\ UNCHANGED <<data_dir, temp_stem, fault, fishnet_geojson, nets, job, config>>

\* The output dataset is created (GDAL zero-fills a new band) and gets its
\* geotransform and projection; a file already at the path is overwritten.
\* GDAL refuses a dataset without pixels.
CreateRaster ==
    /\ pc = "create_raster"
    /\ IF dims[1] >= 1 /\ dims[2] >= 1
       THEN /\ raster' = [exists |-> TRUE, width |-> dims[1], height |-> dims[2],
                          transform |-> GeoTransform(bounds, args.resolution),
                          band |-> [p \in Pixels(dims[1], dims[2]) |-> 0],
                          filled |-> FALSE, burned |-> FALSE]
            /\ pc' = "fill"
            /\ UNCHANGED outcome
       ELSE Failed /\ UNCHANGED raster
    /\ UNCHANGED <<args, attrs_set, errors, named, lookups, fishnet, bounds, aoi,
                   intersection, int_merge, dims, temp_files>>
    /\ UNCHANGED <<data_dir, temp_stem, fault, fishnet_geojson, nets, job, config>>

\* band.Fill(self.nodata)
FillBand ==
    /\ pc = "fill"
    /\ raster' = [raster EXCEPT !.band = [p \in DOMAIN raster.band |-> args.nodata],
                                !.filled = TRUE]
    /\ pc' = "rasterise"
    /\ UNCHANGED <<args, attrs_set, errors, named, lookups, fishnet, bounds, aoi,
                   intersection, int_merge, dims, temp_files, outcome>>
    /\ UNCHANGED <<data_dir, temp_stem, fault, fishnet_geojson, nets, job, config>>

\* gdal.RasterizeLayer burns include_me; a layer written from an empty table
\* has no include_me field, which GDAL reports as an error.
Rasterise ==
    /\ pc = "rasterise"
    /\ IF Len(int_merge) > 0
       THEN /\ raster' = [raster EXCEPT
                            !.band = BurnLayer(raster.band, raster.transform,
                                               int_merge, 1),
                            !.burned = TRUE]
            /\ pc' = "finally"
            /\ outcome' = "ok"
       ELSE Failed /\ UNCHANGED raster
    /\ UNCHANGED <<args, attrs_set, errors, named, lookups, fishnet, bounds, aoi,
                   intersection, int_merge, dims, temp_files>>
    /\ UNCHANGED <<data_dir, temp_stem, fault, fishnet_geojson, nets, job, config>>

\* A step that calls into the GeoJSON reader, the overlay engine, the file
\* system or GDAL raises.
StepRaises ==
    /\ pc \in {"read_input", "overlay", "write_temp", "create_raster", "rasterise"}
    /\ attrs_set
    /\ Failed
    /\ UNCHANGED <<args, attrs_set, errors, named, lookups, fishnet, bounds, aoi,
                   intersection, int_merge, dims, temp_files, raster>>
    /\ UNCHANGED <<data_dir, temp_stem, fault, fishnet_geojson, nets, job, config>>

\* finally: every file <stem>.* of the temporary shapefile is unlinked.
Cleanup ==
    /\ pc = "finally"
    /\ temp_files' = {ext \in temp_files : ~GlobMatches(temp_stem, <<temp_stem, ext>>)}
    /\ data_dir' = {file \in data_dir : ~GlobMatches(temp_stem, file)}
    /\ raster' = IF raster.exists /\ GlobMatches(temp_stem, OutputFile(args))
                 THEN NoRaster ELSE raster
    /\ pc' = "done"
    /\ UNCHANGED <<args, attrs_set, errors, named, lookups, fishnet, bounds, aoi,
                   intersection, int_merge, dims, outcome>>
    /\ UNCHANGED <<temp_stem, fault, fishnet_geojson, nets, job, config>>

(***************************************************************************)
(* A program that drives FishNet itself: FishNet(...).create(), twice, the  *)
(* second object made once the first call is over.                         *)
(***************************************************************************)

\* The value of the lad argument with its Python type.
LadNone == [type |-> "NoneType", value |-> <<>>]
LadAll == [type |-> "str", value |-> <<"a", "l", "l">>]
LadList == [type |-> "list", value |-> <<GoodCode1>>]
LadTwo == [type |-> "list", value |-> <<GoodCode1, GoodCode2>>]
LadEmpty == [type |-> "list", value |-> <<>>]

\* ','.join(self.lad)
RECURSIVE JoinCodes(_)
JoinCodes(lad) ==
    IF Len(lad) = 0 THEN <<>>
    ELSE IF Len(lad) = 1 THEN lad[1]
    ELSE lad[1] \o <<",">> \o JoinCodes(Tail(lad))

\* The year of the boundaries asked for.
LadYear == 2016

\* The query of the boundary request.
LookupRequest(lad) ==
    [lad_codes |-> JoinCodes(lad), export_format |-> "geojson", year |-> LadYear]

\* AreaOfInterest that keeps the bounding box whatever the lookup answers.
AreaOfInterestBBox(lad, bbox, total_bounds) == bbox

\* The extent the grid is laid over: aoi starts as the bbox and, with a
\* non-empty lad, is replaced by the total bounds of the boundaries read.
AreaOfInterest(lad, bbox, total_bounds) ==
    IF Len(lad) > 0 THEN total_bounds ELSE bbox

AllowedOutformats == {"ESRI Shapefile", "GeoJSON"}

\* (outfile, outformat) pairs; an outfile is a name relative to the data directory.
Outputs == { [outfile |-> None, outformat |-> "GeoJSON"],
             [outfile |-> <<"fishnet", "geojson">>, outformat |-> "GeoJSON"],
             [outfile |-> <<"grid", "shp">>, outformat |-> "ESRI Shapefile"],
             [outfile |-> None, outformat |-> "ESRI Shapefile"] }

\* Validator().validate(args, FishNet.__ARG_SCHEMA) for any call: 'type': 'list'
\* on lad refuses a str, whose items are then not looked at.
FishNetArgErrors(n) ==
         ErrorKey("outformat", n.outformat \notin AllowedOutformats)
    \cup ErrorKey("lad", n.lad.type \notin {"list", "NoneType"})
    \cup FishNetErrors(IF n.lad.type = "list" THEN n.lad.value ELSE <<>>,
                       n.bbox, n.netsize)

\* NetLayer with the cells numbered another way by the Shapefile driver.
NetLayerByDriver(outformat, output_file, extent, netsize) ==
    IF outformat = "GeoJSON" THEN FishNetCells(extent, netsize)
    ELSE FishNetCellsRowMajor(extent, netsize)

\* The layer create() fills: the loops take the extent and the cell size, and
\* neither the driver nor the file's name.
NetLayer(outformat, output_file, extent, netsize) == FishNetCells(extent, netsize)

\* A FishNet object before __init__ has run.
NewNet(out, lad, bbox, netsize) ==
    [pc |-> "new", outfile |-> out.outfile, outformat |-> out.outformat,
     lad |-> lad, bbox |-> bbox, netsize |-> netsize, errors |-> {},
     aoi |-> None, output_file |-> None, removed |-> FALSE, created |-> FALSE,
     layer |-> <<>>, result |-> "unset", request |-> None, response |-> None]

\* The two objects get the same bbox, netsize and lad.
NetPairs ==
    {<<NewNet(o1, lad, b, n), NewNet(o2, lad, b, n)>> :
        o1 \in Outputs, o2 \in Outputs,
        lad \in {LadNone, LadAll, LadList, LadTwo, LadEmpty},
        b \in {<<0, 0, 200, 200>>, <<50, 100, 300, 250>>, <<0, 0, 250, 150>>},
        n \in {9, 50, 100}}

InitFishNet ==
    /\ pc = "unused"
    /\ args = None
    /\ data_dir \in DataDirs
    /\ nets \in NetPairs
    /\ job = None
    /\ Blank
    /\ config = ConfigLoaded(FALSE)

\* The variables of Rasteriser objects, which this program has none of.
NoRasteriser ==
    UNCHANGED <<pc, args, attrs_set, errors, named, fishnet, bounds, aoi,
                intersection, int_merge, dims, temp_files, raster, outcome,
                temp_stem, fault, fishnet_geojson, job, config>>

\* FishNet.__init__: ValueError for a Shapefile without a file name; else
\* validate, and assign the attributes or report the errors.
NetConstruct(i) ==
    /\ nets # None
    /\ nets[i].pc = "new"
    /\ i > 1 => nets[i - 1].pc \in {"raised", "returned"}
    /\ LET n == nets[i]
           errs == FishNetArgErrors(n)
       IN  nets' = [nets EXCEPT ![i] =
                IF n.outfile = None /\ n.outformat = "ESRI Shapefile"
                THEN [n EXCEPT !.pc = "raised"]
                ELSE [n EXCEPT !.errors = errs,
                               !.pc = IF ReportRaises(errs) THEN "raised"
                                      ELSE "create"]]
    /\ UNCHANGED <<lookups, data_dir>>
    /\ NoRasteriser

\* create(): the extent is the bbox or, with a lad list, what the boundary
\* service answers.
NetBounds(i) ==
    /\ nets # None
    /\ nets[i].pc = "create"
    /\ IF Len(nets[i].lad.value) > 0
       THEN /\ lookups' = lookups + 1
            /\ \E total_bounds \in LadBounds :
                  nets' = [nets EXCEPT
                      ![i].request = LookupRequest(nets[i].lad.value),
                      ![i].response = total_bounds,
                      ![i].aoi = AreaOfInterest(nets[i].lad.value, nets[i].bbox,
                                                total_bounds),
                      ![i].pc = "file"]
       ELSE /\ nets' = [nets EXCEPT
                      ![i].aoi = AreaOfInterest(nets[i].lad.value, nets[i].bbox,
                                                None),
                      ![i].pc = "file"]
            /\ UNCHANGED lookups
    /\ UNCHANGED data_dir
    /\ NoRasteriser

\* create(): the boundary lookup fails; the exception is logged, None returned.
NetLookupFails(i) ==
    /\ nets # None
    /\ nets[i].pc = "create"
    /\ Len(nets[i].lad.value) > 0
    /\ lookups' = lookups + 1
    /\ nets' = [nets EXCEPT ![i].request = LookupRequest(nets[i].lad.value),
                            ![i].result = CreateReturns("boundary"),
                            ![i].pc = "returned"]
    /\ UNCHANGED data_dir
    /\ NoRasteriser

\* create(): the output is an in-memory file with a random name or the named
\* file, whose earlier version is removed before the data source is created.
NetOpenOutput(i) ==
    /\ nets # None
    /\ nets[i].pc = "file"
    /\ IF nets[i].outfile = None
       THEN /\ \E u \in Uuids :
                  nets' = [nets EXCEPT ![i].output_file = <<"vsimem", u>>,
                                       ![i].pc = "cells"]
            /\ UNCHANGED data_dir
       ELSE /\ nets' = [nets EXCEPT ![i].output_file = nets[i].outfile,
                                    ![i].removed = nets[i].outfile \in data_dir,
                                    ![i].created = TRUE,
                                    ![i].pc = "cells"]
            /\ data_dir' = data_dir \ {nets[i].outfile}
    /\ UNCHANGED lookups
    /\ NoRasteriser

\* create(): the loops write the cells into the layer.
NetWriteCells(i) ==
    /\ nets # None
    /\ nets[i].pc = "cells"
    /\ nets' = [nets EXCEPT ![i].layer = NetLayer(nets[i].outformat,
                                                  nets[i].output_file,
                                                  nets[i].aoi, nets[i].netsize),
                            ![i].pc = "close"]
    /\ UNCHANGED <<lookups, data_dir>>
    /\ NoRasteriser

\* create(): the data source is closed; the GeoJSON is read back from memory
\* and returned, or the path of the file is.
NetReturn(i) ==
    /\ nets # None
    /\ nets[i].pc = "close"
    /\ nets' = [nets EXCEPT ![i].result = IF nets[i].outfile = None
                                          THEN CreateReturns("none") ELSE "path",
                            ![i].pc = "returned"]
    /\ UNCHANGED <<lookups, data_dir>>
    /\ NoRasteriser

\* create(): a call to OGR or to the file system raises; the exception is
\* logged and None returned.
NetRaises(i) ==
    /\ nets # None
    /\ nets[i].pc \in {"file", "cells", "close"}
    /\ nets' = [nets EXCEPT ![i].result = CreateReturns("other"),
                            ![i].pc = "returned"]
    /\ UNCHANGED <<lookups, data_dir>>
    /\ NoRasteriser

(***************************************************************************)
(* run.py: run() reads the fishnet file, checks it and rasterises.         *)
(***************************************************************************)

\* A GeoDataFrame: its column names in order, and its rows.
Gdf(columns, rows) == [columns |-> columns, rows |-> rows]

HasColumn(gdf, name) == \E k \in 1..Len(gdf.columns) : gdf.columns[k] = name

\* gdf.rename(columns={old: new})
Rename(gdf, old, new) ==
    Gdf([k \in 1..Len(gdf.columns) |->
            IF gdf.columns[k] = old THEN new ELSE gdf.columns[k]],
        gdf.rows)

\* CheckFishnetValid that takes any column for the FID when 'fid' is missing.
CheckFishnetValidLenient(gdf) ==
    IF HasColumn(gdf, "FID") THEN [exit |-> FALSE, gdf |-> gdf]
    ELSE [exit |-> FALSE, gdf |-> Rename(gdf, gdf.columns[1], "FID")]

\* check_fishnet_valid(gdf, uid): the frame it returns, or exit(1).
CheckFishnetValid(gdf) ==
    IF ~HasColumn(gdf, "FID")
    THEN IF HasColumn(gdf, "fid")
         THEN [exit |-> FALSE, gdf |-> Rename(gdf, "fid", "FID")]
         ELSE [exit |-> TRUE, gdf |-> gdf]
    ELSE [exit |-> FALSE, gdf |-> gdf]

\* The keyword arguments rasterise() calls Rasteriser with, and those
\* Rasteriser.__init__ takes.
RasteriseKeywords == {"fishnet", "output_filename", "output_format", "resolution",
                      "area_threshold", "invert", "nodata", "fishnet_uid"}
InitKeywords == {"geojson_data", "area_codes", "bounding_box", "fishnet", "scale",
                 "output_filename", "output_format", "resolution",
                 "area_threshold", "invert", "nodata"}

\* The fishnet files run() may find at /data/fishnet.geojson.
FishnetFiles ==
    { Gdf(<<"FID", "geometry">>, << <<1, "cell_a">>, <<2, "cell_b">> >>),
      Gdf(<<"fid", "geometry">>, << <<1, "cell_a">>, <<2, "cell_b">> >>),
      Gdf(<<"name", "fid", "geometry">>, << <<"a", 7, "cell_a">> >>),
      Gdf(<<"fid", "FID", "geometry">>, << <<0, 1, "cell_a">>, <<1, 2, "cell_b">> >>),
      Gdf(<<"id", "geometry">>, << <<1, "cell_a">>, <<2, "cell_b">> >>),
      Gdf(<<"geometry">>, << <<"cell_a">> >>) }

InitRun ==
    /\ pc = "unused"
    /\ args = None
    /\ data_dir \in DataDirs
    /\ nets = None
    /\ job \in {[pc |-> "run", file |-> f, fnet |-> None] : f \in FishnetFiles}
    /\ Blank
    /\ config = ConfigLoaded(FALSE)

\* The variables run() leaves alone until it makes a Rasteriser.
NoWork ==
    UNCHANGED <<pc, args, attrs_set, errors, named, lookups, fishnet, bounds, aoi,
                intersection, int_merge, dims, temp_files, raster, outcome,
                data_dir, temp_stem, fault, fishnet_geojson, nets, config>>

\* run(): the fishnet file is read and checked.
RunCheck ==
    /\ job # None
    /\ job.pc = "run"
    /\ LET checked == CheckFishnetValid(job.file)
       IN  job' = IF checked.exit
                  THEN [job EXCEPT !.pc = "exit"]
                  ELSE [job EXCEPT !.pc = "checked", !.fnet = checked.gdf]
    /\ NoWork

\* run(): the data file is read and rasterise() calls Rasteriser(...) with a
\* keyword __init__ does not take: TypeError, before any object exists.
RunRasterise ==
    /\ job # None
    /\ job.pc = "checked"
    /\ job' = [job EXCEPT !.pc = IF RasteriseKeywords \subseteq InitKeywords
                                 THEN "rasterising" ELSE "raised"]
    /\ NoWork

(***************************************************************************)
(* A program that calls Config.get and Config.set, in any order.           *)
(***************************************************************************)

InitConfig ==
    /\ pc = "unused"
    /\ args = None
    /\ data_dir \in DataDirs
    /\ nets = None
    /\ job = None
    /\ Blank
    /\ config = ConfigLoaded(TRUE)

\* The variables Config has no hand in.
NoObjects ==
    UNCHANGED <<pc, args, attrs_set, errors, named, lookups, fishnet, bounds, aoi,
                intersection, int_merge, dims, temp_files, raster, outcome,
                data_dir, temp_stem, fault, fishnet_geojson, nets, job>>

\* Config.set(name, value)
ConfigSet ==
    /\ config.calls
    /\ \E name \in ConfigNames, value \in ConfigValues :
          LET done == Set(config.conf, name, value)
          IN  config' = [config EXCEPT
                  !.conf = done.conf,
                  !.call = [op |-> "set", name |-> name, value |-> value],
                  !.raised = done.raised,
                  !.returned = ""]
    /\ NoObjects

\* Config.get(name)
ConfigGet ==
    /\ config.calls
    /\ \E name \in ConfigNames :
          LET done == Get(config.conf, name)
          IN  config' = [config EXCEPT
                  !.call = [op |-> "get", name |-> name, value |-> ""],
                  !.raised = done.raised,
                  !.returned = done.returned]
    /\ NoObjects

Next ==
    \/ Construct
    \/ EnterCreate
    \/ ReadInput
    \/ FishnetFromBBox
    \/ FishnetSupplied
    \/ FishnetFromLad
    \/ FishnetLadFails
    \/ FishnetCreateRaises
    \/ NoBoundary
    \/ OverlayStep
    \/ MergeStep
    \/ ClassifyStep
    \/ WriteTemp
    \/ WriteTempRefused
    \/ CreateRaster
    \/ FillBand
    \/ Rasterise
    \/ StepRaises
    \/ Cleanup
    \/ \E i \in DOMAIN nets :
          \/ NetConstruct(i)
          \/ NetBounds(i)
          \/ NetLookupFails(i)
          \/ NetOpenOutput(i)
          \/ NetWriteCells(i)
          \/ NetReturn(i)
          \/ NetRaises(i)
    \/ RunCheck
    \/ RunRasterise
    \/ ConfigSet
    \/ ConfigGet

Init ==
    \/ InitRasteriser
    \/ InitFishNet
    \/ InitRun
    \/ InitConfig

Spec == Init /\ [][Next]_vars

(***************************************************************************)
(* Properties                                                              *)
(***************************************************************************)

\* This run generated its fishnet with FishNet.create, over the extent aoi.
Generated == aoi # None

\* FishNet.create has just returned (the fishnet does not change afterwards).
Returned == Generated /\ (pc = "overlay" \/ fishnet = <<>>)

\* A bounding box in the sense of the data model: xmin < xmax and ymin < ymax.
Ordered(b) == b[1] < b[3] /\ b[2] < b[4]

\* The least n with n * step >= len, for len >= 0: ceil(len / step).
LeastCover(len, step) == Min({n \in 0..len : n * step >= len})

\* The greatest n with n * step <= len, for len >= 0: floor(len / step).
MostWithin(len, step) == Max({n \in 0..len : n * step <= len})

ExpectedRows == LeastCover(aoi[4] - aoi[2], args.resolution)
ExpectedCols == LeastCover(aoi[3] - aoi[1], args.resolution)

FIDs == {fishnet[i].FID : i \in 1..Len(fishnet)}

\* C1: for a valid bounding box FishNet.create generates exactly rows * cols
\* cells, and their FIDs are exactly 1 .. rows * cols, none used twice.
C1_CellCountAndFIDs ==
    (Returned /\ Ordered(aoi)) =>
        /\ Len(fishnet) = ExpectedRows * ExpectedCols
        /\ FIDs = 1..(ExpectedRows * ExpectedCols)
        /\ \A i, j \in 1..Len(fishnet) : fishnet[i].FID = fishnet[j].FID => i = j

\* A grid of several rows and several columns was generated.
C1_Witness ==
    /\ Generated /\ Ordered(aoi)
    /\ pc = "overlay"
    /\ ExpectedRows >= 2 /\ ExpectedCols >= 3
    /\ Len(fishnet) >= 6

\* The cells of the fishnet whose top-left corner (the ring's first point) is pt.
CellsAt(pt) == {i \in 1..Len(fishnet) : fishnet[i].ring[1] = pt}

\* C2: FIDs are assigned column-major: the cell of column c and row r (0-based,
\* left to right, top to bottom) has FID c * rows + r + 1 and its top-left corner
\* is (xmin + c * resolution, ymax - r * resolution); over [0,0,200,200] at
\* resolution 100 that is FID 1 at (0,200), 2 at (0,100), 3 at (100,200), 4 at
\* (100,100).
C2_ColumnMajor ==
    (Returned /\ Ordered(aoi)) =>
        /\ \A c \in 0..(ExpectedCols - 1), r \in 0..(ExpectedRows - 1) :
              LET at == CellsAt(<<aoi[1] + c * args.resolution,
                                  aoi[4] - r * args.resolution>>)
              IN  /\ Cardinality(at) = 1
                  /\ \A i \in at : fishnet[i].FID = c * ExpectedRows + r + 1
        /\ (aoi = <<0, 0, 200, 200>> /\ args.resolution = 100) =>
              /\ Len(fishnet) = 4
              /\ \A i \in 1..4 :
                    /\ fishnet[i].FID = i
                    /\ fishnet[i].ring[1] = << <<0, 200>>, <<0, 100>>,
                                               <<100, 200>>, <<100, 100>> >>[i]

\* The four-cell grid of the scenario, and a grid with more rows than columns.
C2_Witness ==
    /\ Generated
    /\ pc = "overlay"
    /\ aoi = <<0, 0, 200, 200>> /\ args.resolution = 100
    /\ Len(fishnet) = 4

\* The points of the bounding box on a 25 m lattice, its border included.
LatticePoints(b) ==
    {<<b[1] + 25 * i, b[2] + 25 * j>> :
        i \in 0..((b[3] - b[1]) \div 25), j \in 0..((b[4] - b[2]) \div 25)}

InEnvelope(pt, env) ==
    /\ env[1] <= pt[1] /\ pt[1] <= env[3]
    /\ env[2] <= pt[2] /\ pt[2] <= env[4]

\* C3: the grid has ceil((ymax-ymin)/resolution) rows and
\* ceil((xmax-xmin)/resolution) columns; it spans x from xmin to
\* xmin + cols * resolution >= xmax and y from ymax down to
\* ymax - rows * resolution <= ymin, less than one cell beyond the box, and
\* every point of the bounding box lies in a cell.
C3_GridCoversBox ==
    (Returned /\ Ordered(aoi)) =>
        LET res == args.resolution
            first_column == {i \in 1..Len(fishnet) : fishnet[i].ring[1][1] = aoi[1]}
            first_row == {i \in 1..Len(fishnet) : fishnet[i].ring[1][2] = aoi[4]}
        IN  /\ Cardinality(first_column) = ExpectedRows
            /\ Cardinality(first_row) = ExpectedCols
            /\ bounds = <<aoi[1], aoi[4] - ExpectedRows * res,
                          aoi[1] + ExpectedCols * res, aoi[4]>>
            /\ bounds[3] >= aoi[3] /\ bounds[3] - aoi[3] < res
            /\ bounds[2] <= aoi[2] /\ aoi[2] - bounds[2] < res
            /\ LET env == [i \in 1..Len(fishnet) |-> Envelope(fishnet[i].ring)]
               IN  \A pt \in LatticePoints(aoi) :
                      \E i \in 1..Len(fishnet) : InEnvelope(pt, env[i])

\* A grid that overshoots its box on the last column only.
C3_Witness ==
    /\ Generated
    /\ pc = "overlay"
    /\ aoi = <<0, 0, 250, 200>> /\ args.resolution = 100
    /\ Len(fishnet) = 6
    /\ bounds = <<0, 0, 300, 200>>

\* The sum of the areas of the first n fragments owned by cell fid.
RECURSIVE SumAreas(_, _)
SumAreas(fid, n) ==
    IF n = 0 THEN 0
    ELSE SumAreas(fid, n - 1)
         + (IF intersection[n].FID = fid THEN intersection[n].area ELSE 0)

\* The rows of the merged table that belong to cell fid.
RowsOf(fid) == {i \in 1..Len(int_merge) : int_merge[i].FID = fid}

\* C4: after the aggregation step every cell of the grid appears exactly once in
\* the aggregated table, a cell no input feature intersects with covered area 0.
C4_EveryCellOnce ==
    pc = "classify" =>
        \A k \in 1..Len(fishnet) :
            /\ Cardinality(RowsOf(fishnet[k].FID)) = 1
            /\ SumAreas(fishnet[k].FID, Len(intersection)) = 0 =>
                  \A i \in RowsOf(fishnet[k].FID) : int_merge[i].area.num = 0

\* C5: the inclusion flag is 0 or 1: above the threshold it is 0 if invert and 1
\* if not; otherwise, equality included, 1 if invert and 0 if not.
C5_InclusionFlag ==
    pc = "write_temp" =>
        \A i \in 1..Len(int_merge) :
            LET row == int_merge[i]
                above == row.area.num > args.area_threshold * row.area.den
            IN  /\ row.include_me \in {0, 1}
                /\ above => row.include_me = (IF args.invert THEN 0 ELSE 1)
                /\ ~above => row.include_me = (IF args.invert THEN 1 ELSE 0)

\* A cell whose covered area equals the threshold was classified.
C5_Witness ==
    /\ pc = "write_temp"
    /\ \E i \in 1..Len(int_merge) :
          /\ int_merge[i].area.num = args.area_threshold * int_merge[i].area.den
          /\ int_merge[i].include_me = 1
          /\ args.invert

\* C6: the covered area of a cell is the sum of the areas of the fragments the
\* cell owns, divided by 100, at every resolution.
C6_CoveredArea ==
    pc \in {"classify", "write_temp"} =>
        \A i \in 1..Len(int_merge) :
            /\ int_merge[i].area.den > 0
            /\ int_merge[i].area.num * 100
                 = SumAreas(int_merge[i].FID, Len(intersection)) * int_merge[i].area.den

\* A 50 m cell owning two fragments of 1250 m2 each has covered area 25.
C6_Witness ==
    /\ pc = "classify"
    /\ args.resolution = 50
    /\ \E i \in 1..Len(int_merge) :
          /\ Cardinality({n \in 1..Len(intersection) :
                            intersection[n].FID = int_merge[i].FID}) = 2
          /\ int_merge[i].area = [num |-> 2500, den |-> 100]

\* C7, as claimed: the raster's width and height are the floors of the quotients
\* of the bounding box, 2 by 2 for [0,0,250,200] at resolution 100.
C7_DimsFromBoundingBox ==
    (raster.exists /\ Generated) =>
        /\ raster.width = MostWithin(aoi[3] - aoi[1], args.resolution)
        /\ raster.height = MostWithin(aoi[4] - aoi[2], args.resolution)

\* C7, amended: the raster's width and height are the floors of the quotients of
\* the fishnet's total bounds, hence the grid's columns and rows when the grid
\* was generated: 3 by 2 for [0,0,250,200] at resolution 100.
C7_DimsFromFishnetBounds ==
    raster.exists =>
        /\ raster.width = MostWithin(bounds[3] - bounds[1], args.resolution)
        /\ raster.height = MostWithin(bounds[4] - bounds[2], args.resolution)
        /\ Generated => /\ raster.width = ExpectedCols
                        /\ raster.height = ExpectedRows
        /\ (aoi = <<0, 0, 250, 200>> /\ args.resolution = 100) =>
              raster.width = 3 /\ raster.height = 2

\* The raster over [0,0,250,200] at resolution 100 was created.
C7_Witness ==
    /\ raster.exists
    /\ aoi = <<0, 0, 250, 200>> /\ args.resolution = 100
    /\ raster.width = 3 /\ raster.height = 2

\* C8: the geotransform is (xmin, resolution, 0, ymax, 0, -resolution) with xmin
\* and ymax the left and top of the extent the grid spans, so that pixel (0,0)
\* starts at the top-left corner of cell FID 1 and, for a grid generated at the
\* raster's resolution, is that cell.
C8_GeoTransform ==
    raster.exists =>
        LET t == raster.transform
            res == args.resolution
        IN  /\ t = <<bounds[1], res, 0, bounds[4], 0, -res>>
            /\ Generated => t[1] = aoi[1] /\ t[4] = aoi[4]
            /\ \A i \in 1..Len(fishnet) :
                  fishnet[i].FID = 1 =>
                      /\ fishnet[i].ring[1] = <<t[1], t[4]>>
                      /\ Generated => Envelope(fishnet[i].ring)
                                        = <<t[1], t[4] - res, t[1] + res, t[4]>>

\* A raster over a box whose corner is not the origin.
C8_Witness ==
    /\ raster.exists
    /\ aoi = <<50, 100, 300, 300>>
    /\ raster.transform = <<50, 100, 0, 300, 0, -100>>

\* The rows of the merged table that contain the centre of pixel p.
Covering(p) ==
    {i \in 1..Len(int_merge) :
        CentreInside(raster.transform, p, Envelope(int_merge[i].ring))}

\* C9: every pixel holds nodata once the band is filled and until cells are
\* burned, which never happens on an unfilled band; after a successful run a
\* pixel holds the inclusion flag of the classified cell covering it, or nodata
\* if there is none; a pixel is always 0, 1 or nodata.
C9_PixelValues ==
    /\ raster.burned => raster.filled
    /\ (raster.filled /\ ~raster.burned) =>
          \A p \in DOMAIN raster.band : raster.band[p] = args.nodata
    /\ outcome = "ok" =>
          /\ raster.burned
          /\ \A p \in DOMAIN raster.band :
                /\ \A i \in Covering(p) : raster.band[p] = int_merge[i].include_me
                /\ Covering(p) = {} => raster.band[p] = args.nodata
    /\ raster.exists =>
          \A p \in DOMAIN raster.band : raster.band[p] \in {0, 1, args.nodata}

\* A finished raster with a pixel left at nodata and a pixel burned to the
\* other value.
C9_Witness ==
    /\ outcome = "ok"
    /\ \E p, q \in DOMAIN raster.band :
          /\ Covering(p) = {} /\ raster.band[p] = args.nodata
          /\ Covering(q) # {} /\ raster.band[q] # args.nodata

\* C10: a constructor call that breaks the schema fails with an error that names
\* every violated field.
C10_ErrorNamesEveryField ==
    (pc # "new" /\ errors # {}) =>
        /\ pc = "ctor_raised"
        /\ named = errors

\* A Rasteriser call that breaks a rule of the constructor's schema.
Invalid(a) ==
    \/ \E i \in 1..Len(a.area_codes) : ~MatchesLadRegex(a.area_codes[i])
    \/ \E i \in 1..Len(a.bounding_box) :
          a.bounding_box[i] < MinCoord \/ a.bounding_box[i] > MaxCoord
    \/ a.scale \notin {"oa", "lad", "gor"}
    \/ a.output_format \notin {"GeoTIFF", "ASCII"}
    \/ a.resolution < MinResolution \/ a.resolution > MaxResolution
    \/ a.area_threshold < MinThreshold \/ a.area_threshold > MaxThreshold
    \/ a.nodata \notin {0, 1}

\* A FishNet call that breaks a rule of its schema, or asks for a Shapefile
\* without naming the file.
InvalidNet(n) ==
    \/ n.lad.type \notin {"list", "NoneType"}
    \/ n.lad.type = "list" /\ \E i \in 1..Len(n.lad.value) : ~MatchesLadRegex(n.lad.value[i])
    \/ \E i \in 1..Len(n.bbox) : n.bbox[i] < MinCoord \/ n.bbox[i] > MaxCoord
    \/ n.netsize < MinResolution \/ n.netsize > MaxResolution
    \/ n.outformat \notin {"ESRI Shapefile", "GeoJSON"}
    \/ n.outfile = None /\ n.outformat = "ESRI Shapefile"

\* C11: when argument validation fails no pipeline work is done, then or
\* later: no boundary lookup, no grid cell, no temporary file, and no output
\* file created, deleted or overwritten.
C11_NoWorkAfterFailedValidation ==
    /\ [](/\ (pc # "unused" /\ Invalid(args)) =>
                /\ lookups = 0
                /\ fishnet = <<>> /\ aoi = None
                /\ temp_files = {}
                /\ ~raster.exists
           /\ \A i \in DOMAIN nets :
                InvalidNet(nets[i]) =>
                    /\ nets[i].aoi = None /\ nets[i].layer = <<>>
                    /\ ~nets[i].created /\ ~nets[i].removed)
    /\ [][/\ (pc # "unused" /\ Invalid(args)) => data_dir' = data_dir
          /\ \A i \in DOMAIN nets :
                (InvalidNet(nets[i]) /\ nets'[i] # nets[i]) =>
                    data_dir' = data_dir /\ lookups' = lookups]_vars

\* A constructor call that broke the schema has raised, an earlier output
\* raster lying in the data directory.
C11_Witness ==
    /\ pc = "ctor_raised"
    /\ Invalid(args)
    /\ errors # {}
    /\ OutputFile(args) \in data_dir

\* C12: when the boundary lookup fails, no grid is built from the default or
\* another bounding box, no raster is written, and what reaches the caller
\* differs from what reaches it when FishNet.create fails otherwise.
C12_BoundaryFailureSurfaced ==
    fault = "boundary" =>
        /\ aoi = None /\ fishnet = <<>>
        /\ ~raster.exists
        /\ fishnet_geojson # CreateReturns("other")

\* C13: when create() returns, however it ended, no file of the run's
\* temporary shapefile is in the data directory, and the cleanup removes no
\* other file and leaves the output raster alone.
C13_TemporaryFilesRemoved ==
    /\ [](pc = "done" =>
            /\ temp_files = {}
            /\ \A file \in data_dir : file[1] # temp_stem)
    /\ [][pc = "finally" => (data_dir' = data_dir /\ raster' = raster)]_vars

\* create() has returned after the burn failed: the temporary shapefile had
\* been written, and the files that were in the directory are all still there.
C13_Witness ==
    /\ pc = "done"
    /\ outcome = "failed"
    /\ raster.exists /\ raster.filled
    /\ temp_files = {}
    /\ data_dir = {<<"9c4e", "shp">>, <<"9c4e", "dbf">>, <<"fishnet", "geojson">>,
                   <<"output_raster", "tif">>}

\* C14: a run that has failed leaves no raster it created at the target path.
C14_NoPartialRaster ==
    (pc = "done" /\ outcome = "failed") => ~raster.exists

\* C15: over [0,0,200,200] at resolution 100, with one polygon that is cell
\* FID 1, threshold 50 and invert, FID 1 is classified 0 and FIDs 2, 3 and 4
\* are classified 1.
C15_ScenarioB ==
    (/\ pc = "write_temp"
     /\ aoi = <<0, 0, 200, 200>> /\ args.resolution = 100
     /\ args.geojson_data = << <<0, 100, 100, 200>> >>
     /\ args.area_threshold = 50 /\ args.invert) =>
        \A fid \in 1..4 :
            /\ RowsOf(fid) # {}
            /\ \A i \in RowsOf(fid) :
                  int_merge[i].include_me = (IF fid = 1 THEN 0 ELSE 1)

\* C16: when no input feature intersects a cell, every cell of the grid is in
\* the classified table with covered area 0, classified 1 if invert and 0 if
\* not, and the table that goes to the raster is not empty.
C16_ScenarioC ==
    (pc = "write_temp" /\ Len(intersection) = 0) =>
        /\ Len(int_merge) > 0
        /\ \A k \in 1..Len(fishnet) :
              /\ RowsOf(fishnet[k].FID) # {}
              /\ \A i \in RowsOf(fishnet[k].FID) :
                    /\ int_merge[i].area.num = 0
                    /\ int_merge[i].include_me = (IF args.invert THEN 1 ELSE 0)

\* The FID-to-rectangle mapping of a layer.
Mapping(layer) == {<<layer[k].FID, layer[k].ring>> : k \in 1..Len(layer)}

\* create() has returned its output.
Finished(n) == n.pc = "returned" /\ n.result # "None"

C18_AllSentinelAccepted ==
    \A i \in DOMAIN nets :
        LET n == nets[i]
        IN  (/\ n.lad = LadAll
             /\ n.netsize >= MinResolution /\ n.netsize <= MaxResolution
             /\ ~(n.outfile = None /\ n.outformat = "ESRI Shapefile")
             /\ n.pc # "new") =>
                /\ n.errors = {}
                /\ n.pc # "raised"

\* The names of a frame's columns.
Columns(gdf) == {gdf.columns[k] : k \in 1..Len(gdf.columns)}

\* C19: a supplied fishnet is used as it is, no cell generated and no
\* boundary looked up; check_fishnet_valid returns a frame with an 'FID'
\* column unchanged, returns a frame with 'fid' only with that column renamed
\* to 'FID' and everything else as it was, and ends the run before any
\* rasterisation when the frame has neither.
C19_SuppliedGridVerbatim ==
    /\ (pc # "unused" /\ args.bounding_box = None /\ args.fishnet # None) =>
          /\ aoi = None
          /\ lookups = 0
          /\ fishnet_geojson # "unset" => fishnet = args.fishnet
    /\ job # None =>
          LET before == job.file
              after == job.fnet
          IN  /\ job.pc = "exit" <=>
                    (job.pc # "run" /\ {"FID", "fid"} \cap Columns(before) = {})
              /\ job.pc = "exit" => pc = "unused" /\ ~raster.exists /\ temp_files = {}
              /\ (job.pc \in {"checked", "raised"} /\ "FID" \in Columns(before)) =>
                    after = before
              /\ (job.pc \in {"checked", "raised"} /\ "FID" \notin Columns(before)) =>
                    /\ after.rows = before.rows
                    /\ Len(after.columns) = Len(before.columns)
                    /\ \A k \in 1..Len(before.columns) :
                          after.columns[k] = (IF before.columns[k] = "fid" THEN "FID"
                                              ELSE before.columns[k])

\* A frame with a lowercase 'fid' between other columns has been checked.
C19_Witness ==
    /\ job # None
    /\ job.pc = "checked"
    /\ job.file.columns = <<"name", "fid", "geometry">>
    /\ job.fnet.columns = <<"name", "FID", "geometry">>
    /\ job.fnet.rows = job.file.rows

\* C20: create() takes the extent from one source: the bounding box if there is
\* one, else the supplied fishnet, else the area codes if there are any; a
\* source of lower precedence is not consulted (no lookup with a bounding box
\* or a fishnet), and with no source the run fails and writes no raster.
C20_OneExtentSource ==
    pc # "unused" =>
        /\ args.bounding_box # None =>
              /\ lookups = 0
              /\ aoi \in {None, args.bounding_box}
              /\ pc = "overlay" => aoi = args.bounding_box
        /\ (args.bounding_box = None /\ args.fishnet # None) =>
              /\ lookups = 0
              /\ aoi = None
              /\ pc = "overlay" => fishnet = args.fishnet
        /\ (args.bounding_box = None /\ args.fishnet = None
                /\ Len(args.area_codes) > 0) =>
              /\ lookups <= 1
              /\ pc = "overlay" => (lookups = 1 /\ aoi \in LadBounds)
        /\ (args.bounding_box = None /\ args.fishnet = None
                /\ Len(args.area_codes) = 0) =>
              /\ lookups = 0
              /\ fishnet = <<>>
              /\ ~raster.exists
              /\ pc \in {"finally", "done"} => outcome = "failed"

\* A run given a bounding box, a fishnet and an area code has built its grid
\* over the bounding box.
C20_Witness ==
    /\ pc = "overlay"
    /\ args.bounding_box = <<0, 0, 200, 200>>
    /\ args.fishnet # None
    /\ Len(args.area_codes) > 0
    /\ aoi = args.bounding_box
    /\ lookups = 0

\* C21: in FishNet.create, a non-empty lad makes one boundary request, for
\* the comma-joined codes and the year 2016, and the grid is laid over the
\* total bounds of the answer, whatever the bounding box is; without codes no
\* request is made and the grid is laid over the bounding box.
C21_LookupExtentOverridesBBox ==
    \A i \in DOMAIN nets :
        LET n == nets[i]
            codes == Len(n.lad.value) > 0
        IN  /\ (~codes /\ n.pc # "new") => n.request = None /\ n.response = None
            /\ (\A j \in DOMAIN nets : Len(nets[j].lad.value) = 0) => lookups = 0
            /\ n.aoi # None =>
                 IF codes
                 THEN /\ n.request.year = 2016
                      /\ n.request.export_format = "geojson"
                      /\ n.lad = LadList => n.request.lad_codes = GoodCode1
                      /\ n.lad = LadTwo =>
                            n.request.lad_codes = GoodCode1 \o <<",">> \o GoodCode2
                      /\ n.aoi = n.response
                 ELSE n.aoi = n.bbox
            /\ (n.pc = "close" \/ Finished(n)) =>
                 n.layer = FishNetCells(IF codes THEN n.response ELSE n.bbox,
                                        n.netsize)

\* A grid has been written for two codes and a bounding box that is not the
\* answer of the boundary service.
C21_Witness ==
    /\ nets # None
    /\ nets[1].lad = LadTwo
    /\ nets[1].pc = "close"
    /\ nets[1].bbox = <<0, 0, 250, 150>>
    /\ nets[1].response = <<50, 100, 300, 250>>
    /\ nets[1].layer # <<>>
    /\ lookups = 1

\* C22: whatever Config.set and Config.get calls are made, every value but
\* LOG_LEVEL is the initial one; a set of another name raises NameError and
\* changes no value, a set of LOG_LEVEL stores the value given and changes
\* nothing else, and a get changes no value.
C22_OnlyLogLevelSettable ==
    /\ [](\A k \in DOMAIN Conf :
            /\ k \in DOMAIN config.conf
            /\ k # "LOG_LEVEL" => config.conf[k] = Conf[k])
    /\ [](DOMAIN config.conf = DOMAIN Conf)
    /\ [][config' # config =>
            LET call == config'.call
            IN  /\ (call.op = "set" /\ call.name # "LOG_LEVEL") =>
                      /\ config'.raised = "NameError"
                      /\ config'.conf = config.conf
                /\ (call.op = "set" /\ call.name = "LOG_LEVEL") =>
                      /\ config'.raised = "none"
                      /\ config'.conf["LOG_LEVEL"] = call.value
                      /\ \A k \in DOMAIN Conf \ {"LOG_LEVEL"} :
                            config'.conf[k] = config.conf[k]
                /\ call.op = "get" => config'.conf = config.conf]_vars

\* LOG_LEVEL has been set to another value, and a later set of
\* DATA_DIRECTORY has raised NameError.
C22_Witness ==
    /\ config.calls
    /\ config.conf["LOG_LEVEL"] = "logging.DEBUG"
    /\ config.call = [op |-> "set", name |-> "DATA_DIRECTORY", value |-> "verbose"]
    /\ config.raised = "NameError"

\* The ring of the cell whose FID is fid.
RingOf(fid) == fishnet[CHOOSE i \in 1..Len(fishnet) : fishnet[i].FID = fid].ring

\* C23: the cells of a generated grid tile its area: every ring has five
\* points, the last being the first, and is a rectangle one resolution wide
\* and one resolution high; cells with different FIDs share no interior; a
\* cell's bottom edge is the top edge of the cell of the next row and its
\* right edge the left edge of the cell of the next column; and the cells
\* together have the area of the rectangle they span.
C23_CellsTile ==
    (Returned /\ Ordered(aoi)) =>
        LET res == args.resolution
            n == Len(fishnet)
        IN  /\ \A i \in 1..n :
                  LET ring == fishnet[i].ring
                  IN  /\ Len(ring) = 5
                      /\ ring[5] = ring[1]
                      /\ ring[2][2] = ring[1][2] /\ ring[2][1] - ring[1][1] = res
                      /\ ring[3][1] = ring[2][1] /\ ring[2][2] - ring[3][2] = res
                      /\ ring[4][2] = ring[3][2] /\ ring[4][1] = ring[1][1]
            /\ \A i, j \in 1..n :
                  fishnet[i].FID # fishnet[j].FID =>
                      OverlapArea(Envelope(fishnet[i].ring),
                                  Envelope(fishnet[j].ring)) = 0
            /\ \A i \in 1..n :
                  LET fid == fishnet[i].FID
                      ring == fishnet[i].ring
                  IN  /\ fid % ExpectedRows # 0 =>
                            /\ RingOf(fid + 1)[1] = ring[4]
                            /\ RingOf(fid + 1)[2] = ring[3]
                      /\ fid + ExpectedRows <= n =>
                            /\ RingOf(fid + ExpectedRows)[1] = ring[2]
                            /\ RingOf(fid + ExpectedRows)[4] = ring[3]
            /\ n * res * res = (bounds[3] - bounds[1]) * (bounds[4] - bounds[2])

\* A grid of three columns and two rows, so that cells have neighbours in
\* the next row and in the next column.
C23_Witness ==
    /\ Generated /\ Ordered(aoi)
    /\ pc = "overlay"
    /\ ExpectedRows = 2 /\ ExpectedCols = 3
    /\ Len(fishnet) = 6
    /\ RingOf(1)[3] = RingOf(4)[1]

=============================================================================
